---- MODULE Spec2Model ----
(***************************************************************************)
(* Model of go/models/alert_object_list.go: the AlertObjectList record and *)
(* what its `json:"..."` struct tags make encoding/json do with it.        *)
(*                                                                         *)
(* A Go string is a byte sequence.  It is modelled as a sequence of units: *)
(* a unit is a chunk of ordinary text ("POOL", "alert1", ...), or one of   *)
(*   "QUOTE"  the character "           (escaped inside a JSON string)     *)
(*   "BAD"    a byte that is not valid UTF-8                               *)
(*   "REPL"   the character U+FFFD                                         *)
(* Inside a JSON string literal the units are text chunks, "REPL",         *)
(*   "ESC_QUOTE" (the escape of "), "ESC_FFFD" (the escape of U+FFFD) and, *)
(*   in documents the client did not write itself, a raw "BAD" byte.       *)
(***************************************************************************)
EXTENDS Integers, Sequences, FiniteSets, TLC

\* ------------------------------------------------------------------ bounds
MaxObjects == 2
MaxMembers == 3
MaxWrites == 2

\* ------------------------------------------------------- the record's shape
StringFields == {"Name", "Source", "TenantRef", "URL", "UUID"}
FieldNames == StringFields \cup {"Objects"}

\* A nil slice and an empty non-nil slice are different Go values.
NilSlice == [isNil |-> TRUE, elems |-> <<>>]
MkSlice(es) == [isNil |-> FALSE, elems |-> es]

\* The zero value of the struct: what `AlertObjectList{}` and `new` give.
AlertObjectList ==
  [Name |-> <<>>, Objects |-> NilSlice, Source |-> <<>>,
   TenantRef |-> <<>>, URL |-> <<>>, UUID |-> <<>>]

\* Enum options of Source.
SourceEnum == {<<"CONN_LOGS">>, <<"APP_LOGS">>, <<"EVENT_LOGS">>, <<"METRICS">>}

\* Enum options of Objects (the first entries of the list and its last).
ObjectsEnum ==
  {<<"VIRTUALSERVICE">>, <<"POOL">>, <<"HEALTHMONITOR">>, <<"NETWORKPROFILE">>,
   <<"APPLICATIONPROFILE">>, <<"HTTPPOLICYSET">>, <<"MAXOBJECTS">>}

\* ------------------------------------------------------------ JSON strings
\* encoding/json writes a string field as a JSON string literal: a quote is
\* escaped and a byte that is not valid UTF-8 is written as the escape of
\* U+FFFD.
EncodeUnit(u) ==
  CASE u = "QUOTE" -> "ESC_QUOTE"
    [] u = "BAD" -> "ESC_FFFD"
    [] OTHER -> u

EncodeString(s) == [i \in 1..Len(s) |-> EncodeUnit(s[i])]

\* encoding/json reads a JSON string literal into a string field: escapes
\* are resolved and a raw byte that is not valid UTF-8 becomes U+FFFD.
DecodeUnitKeepsEscapes(w) ==
  CASE w = "ESC_FFFD" -> "REPL"
    [] w = "BAD" -> "REPL"
    [] OTHER -> w

DecodeUnit(w) ==
  CASE w = "ESC_QUOTE" -> "QUOTE"
    [] w = "ESC_FFFD" -> "REPL"
    [] w = "BAD" -> "REPL"
    [] OTHER -> w

DecodeString(w) == [i \in 1..Len(w) |-> DecodeUnit(w[i])]

\* ------------------------------------------------------------ JSON values
JStr(w) == [t |-> "str", s |-> w, a |-> <<>>]
JArr(ws) == [t |-> "arr", s |-> <<>>, a |-> ws]
JNum == [t |-> "num", s |-> <<>>, a |-> <<>>]
JNull == [t |-> "null", s |-> <<>>, a |-> <<>>]

Member(k, v) == [key |-> k, val |-> v]

\* --------------------------------------------------------------- the tags
\* The tags with url and uuid exchanged.
TagOfSwapped ==
  [f \in FieldNames |->
     CASE f = "Name" -> "name"
       [] f = "Objects" -> "objects"
       [] f = "Source" -> "source"
       [] f = "TenantRef" -> "tenant_ref"
       [] f = "URL" -> "uuid"
       [] f = "UUID" -> "url"]

\* The JSON name each field is tagged with.
TagOf ==
  [f \in FieldNames |->
     CASE f = "Name" -> "name"
       [] f = "Objects" -> "objects"
       [] f = "Source" -> "source"
       [] f = "TenantRef" -> "tenant_ref"
       [] f = "URL" -> "url"
       [] f = "UUID" -> "uuid"]

\* ------------------------------------------------------------- json.Marshal
\* A string field tagged `json:"k"`: always written.
Always(k, s) == <<Member(k, JStr(EncodeString(s)))>>

\* A string field tagged `json:"k,omitempty"`: left out when its length is 0.
OmitEmpty(k, s) == IF Len(s) = 0 THEN <<>> ELSE Always(k, s)

\* A []string field tagged `json:"k,omitempty"`: left out when its length is
\* 0, nil or not.
OmitEmptyList(k, l) ==
  IF Len(l.elems) = 0 THEN <<>>
  ELSE <<Member(k, JArr([i \in 1..Len(l.elems) |-> EncodeString(l.elems[i])]))>>

\* Marshal with omitempty on name as well.
MarshalOmitsName(r) ==
  OmitEmpty(TagOf["Name"], r.Name)
    \o OmitEmptyList(TagOf["Objects"], r.Objects)
    \o Always(TagOf["Source"], r.Source)
    \o OmitEmpty(TagOf["TenantRef"], r.TenantRef)
    \o OmitEmpty(TagOf["URL"], r.URL)
    \o OmitEmpty(TagOf["UUID"], r.UUID)

\* json.Marshal(r): the fields in declaration order, each under its tag.
Marshal(r) ==
  Always(TagOf["Name"], r.Name)
    \o OmitEmptyList(TagOf["Objects"], r.Objects)
    \o Always(TagOf["Source"], r.Source)
    \o OmitEmpty(TagOf["TenantRef"], r.TenantRef)
    \o OmitEmpty(TagOf["URL"], r.URL)
    \o OmitEmpty(TagOf["UUID"], r.UUID)

\* ----------------------------------------------------------- json.Unmarshal
\* Case folding of the keys the model's documents use.
Fold(k) ==
  CASE k = "NAME" -> "name"
    [] k = "URL" -> "url"
    [] OTHER -> k

\* encoding/json looks a key up by its exact name first and, failing that,
\* by its case-folded name; "" stands for "no field".
FieldOfKey(k) ==
  IF \E f \in FieldNames : TagOf[f] = k
    THEN CHOOSE f \in FieldNames : TagOf[f] = k
  ELSE IF \E f \in FieldNames : TagOf[f] = Fold(k)
    THEN CHOOSE f \in FieldNames : TagOf[f] = Fold(k)
  ELSE ""

\* DecodeMember with unknown fields disallowed.
DecodeMemberStrict(d, m) ==
  LET f == FieldOfKey(m.key)
      unknown == [d EXCEPT !.err = IF d.err = "none" THEN "UnknownField"
                                   ELSE d.err]
      typeErr == [d EXCEPT !.err = IF d.err = "none" THEN "UnmarshalTypeError"
                                   ELSE d.err]
  IN  IF f = "" THEN unknown
      ELSE IF f = "Objects" THEN
        CASE m.val.t = "null" -> [d EXCEPT !.val.Objects = NilSlice]
          [] m.val.t = "arr" ->
               [d EXCEPT !.val.Objects =
                  MkSlice([i \in 1..Len(m.val.a) |-> DecodeString(m.val.a[i])])]
          [] OTHER -> typeErr
      ELSE
        CASE m.val.t = "null" -> d
          [] m.val.t = "str" -> [d EXCEPT !.val[f] = DecodeString(m.val.s)]
          [] OTHER -> typeErr

\* DecodeMember with Source checked against its enumeration.
DecodeMemberValidating(d, m) ==
  LET f == FieldOfKey(m.key)
      invalid == [d EXCEPT !.err = IF d.err = "none" THEN "InvalidEnum"
                                   ELSE d.err]
      typeErr == [d EXCEPT !.err = IF d.err = "none" THEN "UnmarshalTypeError"
                                   ELSE d.err]
  IN  IF f = "" THEN d
      ELSE IF f = "Objects" THEN
        CASE m.val.t = "null" -> [d EXCEPT !.val.Objects = NilSlice]
          [] m.val.t = "arr" ->
               [d EXCEPT !.val.Objects =
                  MkSlice([i \in 1..Len(m.val.a) |-> DecodeString(m.val.a[i])])]
          [] OTHER -> typeErr
      ELSE
        CASE m.val.t = "null" -> d
          [] m.val.t = "str" ->
               IF f = "Source" /\ DecodeString(m.val.s) \notin SourceEnum
                 THEN invalid
                 ELSE [d EXCEPT !.val[f] = DecodeString(m.val.s)]
          [] OTHER -> typeErr

\* One object member decoded into the record; d = [err, val].
\* A key no field matches is skipped.  null leaves a string alone and sets a
\* slice to nil.  A value of the wrong JSON type records an
\* UnmarshalTypeError (the first one is kept) and decoding goes on.
DecodeMember(d, m) ==
  LET f == FieldOfKey(m.key)
      typeErr == [d EXCEPT !.err = IF d.err = "none" THEN "UnmarshalTypeError"
                                   ELSE d.err]
  IN  IF f = "" THEN d
      ELSE IF f = "Objects" THEN
        CASE m.val.t = "null" -> [d EXCEPT !.val.Objects = NilSlice]
          [] m.val.t = "arr" ->
               [d EXCEPT !.val.Objects =
                  MkSlice([i \in 1..Len(m.val.a) |-> DecodeString(m.val.a[i])])]
          [] OTHER -> typeErr
      ELSE
        CASE m.val.t = "null" -> d
          [] m.val.t = "str" -> [d EXCEPT !.val[f] = DecodeString(m.val.s)]
          [] OTHER -> typeErr

RECURSIVE DecodeMembers(_, _)
DecodeMembers(d, doc) ==
  IF doc = <<>> THEN d
  ELSE DecodeMembers(DecodeMember(d, Head(doc)), Tail(doc))

\* Unmarshal into a record that starts with a default tenant.
UnmarshalWithDefault(doc) ==
  DecodeMembers([err |-> "none",
                 val |-> [AlertObjectList EXCEPT !.TenantRef = <<"admin">>]], doc)

\* json.Unmarshal(doc, &AlertObjectList{}): members are taken in document
\* order.  No step looks at which keys are missing.
Unmarshal(doc) == DecodeMembers([err |-> "none", val |-> AlertObjectList], doc)

\* ------------------------------------------------------------ the program
VARIABLES
  pc,        \* "new", "built", "sent", "echoed", "received", "decoded"
  supplied,  \* the fields the caller's struct literal named
  rec,       \* the record the caller built
  doc,       \* the document on the wire
  res,       \* what json.Unmarshal returned: [err, val]
  heap,      \* the backing arrays of the []string values, by address
  held,      \* the struct value each holder has; Objects is a slice header
  writes     \* how many writes the holders have made

codec == <<supplied, rec, doc, res>>
copies == <<heap, held, writes>>
vars == <<pc, supplied, rec, doc, res, heap, held, writes>>

\* Values a caller puts in the string fields.
FieldStrs ==
  {<<>>, <<"METRICS">>, <<"NOT_A_REAL_TYPE", "QUOTE">>, <<"alert1", "BAD">>}

\* Values a caller puts in the entries of Objects.
ObjectStrs == {<<"POOL">>, <<"NOT_A_REAL_TYPE">>, <<"BAD">>}

SeqsUpTo(S, n) == UNION {[1..k -> S] : k \in 0..n}

\* One field of a struct literal: left out, or given a value.
Unset(zero) == [set |-> FALSE, v |-> zero]
StringArgs == {Unset(<<>>)} \cup {[set |-> TRUE, v |-> x] : x \in FieldStrs}
ObjectsArgs ==
  {Unset(NilSlice)}
    \cup {[set |-> TRUE, v |-> MkSlice(es)] : es \in SeqsUpTo(ObjectStrs, MaxObjects)}

\* Documents a server sends.
ServerMembers ==
  {Member("name", JStr(<<"alert1">>)),
   Member("name", JStr(<<"a", "ESC_QUOTE">>)),
   Member("name", JNull),
   Member("NAME", JStr(<<"b">>)),
   Member("source", JStr(<<"EVENT_LOGS">>)),
   Member("source", JStr(<<"METRICS">>)),
   Member("source", JNum),
   Member("objects", JArr(<<<<"VIRTUALSERVICE">>, <<"POOL">>>>)),
   Member("objects", JArr(<<<<"POOL">>>>)),
   Member("objects", JArr(<<>>)),
   Member("objects", JNull),
   Member("tenant_ref", JStr(<<"/api/tenant/1">>)),
   Member("tenant_ref", JStr(<<"BAD">>)),
   Member("url", JStr(<<"/api/alertobjectlist/1">>)),
   Member("URL", JStr(<<"/api/alertobjectlist/2">>)),
   Member("uuid", JStr(<<"uuid-1">>)),
   Member("extra", JNum)}

ServerDocs == SeqsUpTo(ServerMembers, MaxMembers)

\* ---- struct values in memory
Holders == {"a", "b"}

\* A slice header: the address of the backing array (0 for nil) and a length.
NilHeader == [ptr |-> 0, len |-> 0]

\* The zero value, with Objects as a slice header.
ZeroValue ==
  [Name |-> <<>>, Objects |-> NilHeader, Source |-> <<>>,
   TenantRef |-> <<>>, URL |-> <<>>, UUID |-> <<>>]

\* Values the holders write.
WriteStrs == {<<"x">>, <<"y">>}

Init ==
  /\ pc = "new"
  /\ supplied = {}
  /\ rec = AlertObjectList
  /\ doc = <<>>
  /\ res = [err |-> "none", val |-> AlertObjectList]
  /\ heap = <<>>
  /\ held = [h \in Holders |-> ZeroValue]
  /\ writes = 0

\* AlertObjectList{Name: ..., Objects: ..., ...}: a field the literal leaves
\* out keeps its zero value; nothing is checked.
Construct ==
  /\ pc = "new"
  /\ \E n, s, t, u, id \in StringArgs, o \in ObjectsArgs :
       /\ rec' = [Name |-> n.v, Objects |-> o.v, Source |-> s.v,
                  TenantRef |-> t.v, URL |-> u.v, UUID |-> id.v]
       /\ supplied' = {f \in FieldNames :
                         \/ f = "Name" /\ n.set
                         \/ f = "Objects" /\ o.set
                         \/ f = "Source" /\ s.set
                         \/ f = "TenantRef" /\ t.set
                         \/ f = "URL" /\ u.set
                         \/ f = "UUID" /\ id.set}
  /\ pc' = "built"
  /\ UNCHANGED <<doc, res>>
  /\ UNCHANGED copies

\* The request body: json.Marshal(rec).
Send ==
  /\ pc = "built"
  /\ doc' = Marshal(rec)
  /\ pc' = "sent"
  /\ UNCHANGED <<supplied, rec, res>>
  /\ UNCHANGED copies

\* A response body arrives.
Receive ==
  /\ pc = "new"
  /\ \E d \in ServerDocs : doc' = d
  /\ pc' = "received"
  /\ UNCHANGED <<supplied, rec, res>>
  /\ UNCHANGED copies

\* json.Unmarshal(doc, &AlertObjectList{}) of the client's own document
\* ("echoed") or of a server's ("decoded").
Decode ==
  /\ pc \in {"sent", "received"}
  /\ res' = Unmarshal(doc)
  /\ pc' = IF pc = "sent" THEN "echoed" ELSE "decoded"
  /\ UNCHANGED <<supplied, rec, doc>>
  /\ UNCHANGED copies

Next == Construct \/ Send \/ Receive \/ Decode

Spec == Init /\ [][Next]_vars

\* ------------------------------------------------------------ shared terms
Keys(d) == {d[i].key : i \in 1..Len(d)}

HasKey(d, k) == k \in Keys(d)

\* The value of the last member spelled exactly k.
ValueOf(d, k) ==
  LET I == {i \in 1..Len(d) : d[i].key = k}
  IN  d[CHOOSE i \in I : \A j \in I : j <= i].val

\* A string with no byte that is not valid UTF-8.
ValidUTF8(s) == \A i \in 1..Len(s) : s[i] # "BAD"

\* The six wire names, as the interface documents them.
WireNames == {"name", "objects", "source", "tenant_ref", "url", "uuid"}

\* Every string of the record is valid UTF-8.
RecordValidUTF8(r) ==
  /\ \A f \in StringFields : ValidUTF8(r[f])
  /\ \A i \in 1..Len(r.Objects.elems) : ValidUTF8(r.Objects.elems[i])

\* An empty slice that is not nil.
EmptyNotNil(l) == ~l.isNil /\ l.elems = <<>>

\* ---------------------------------------------------------------------- C1
\* C1, as stated: whenever Name and Source are non-empty, whatever the other
\* fields hold (an empty, non-nil Objects included), decoding the encoded
\* record gives back a record equal to it field for field.
C1_RoundTripAnyValues ==
  (pc = "echoed" /\ rec.Name # <<>> /\ rec.Source # <<>>)
    => (res.err = "none" /\ res.val = rec)

\* C1, amended: whenever Name and Source are non-empty, every string of the
\* record is valid UTF-8 and Objects is nil or has at least one entry,
\* decoding the encoded record succeeds and gives back a record equal to it
\* field for field.
C1_RoundTrip ==
  (/\ pc = "echoed"
   /\ rec.Name # <<>> /\ rec.Source # <<>>
   /\ RecordValidUTF8(rec)
   /\ ~EmptyNotNil(rec.Objects))
    => (res.err = "none" /\ res.val = rec)

\* A record with an escaped character and two Objects entries came back.
C1_Witness ==
  /\ pc = "echoed"
  /\ rec.Name = <<"NOT_A_REAL_TYPE", "QUOTE">>
  /\ rec.Source = <<"METRICS">>
  /\ rec.Objects = MkSlice(<<<<"POOL">>, <<"NOT_A_REAL_TYPE">>>>)
  /\ rec.URL # <<>>
  /\ RecordValidUTF8(rec)
  /\ res.val = rec

\* ---------------------------------------------------------------------- C2
\* C2: in the document Marshal produces, each of the keys objects,
\* tenant_ref, url and uuid is present exactly when its field has length
\* greater than 0, and the keys name and source are present always, also
\* when Name or Source is the empty string.
C2_Omission ==
  pc \in {"sent", "echoed"} =>
    /\ HasKey(doc, "objects") <=> Len(rec.Objects.elems) > 0
    /\ HasKey(doc, "tenant_ref") <=> rec.TenantRef # <<>>
    /\ HasKey(doc, "url") <=> rec.URL # <<>>
    /\ HasKey(doc, "uuid") <=> rec.UUID # <<>>
    /\ HasKey(doc, "name")
    /\ HasKey(doc, "source")

\* A record with empty Name and Source, an empty non-nil Objects, a URL and
\* no UUID was encoded.
C2_Witness ==
  /\ pc = "sent"
  /\ rec.Name = <<>> /\ rec.Source = <<>>
  /\ EmptyNotNil(rec.Objects)
  /\ rec.URL # <<>> /\ rec.UUID = <<>> /\ rec.TenantRef = <<>>
  /\ Keys(doc) = {"name", "source", "url"}

\* ---------------------------------------------------------------------- C3
\* C3, as stated: decoding a document that lacks the key name or the key
\* source fails with MissingRequiredField.
C3_MissingKeyFails ==
  (pc = "decoded" /\ (~HasKey(doc, "name") \/ ~HasKey(doc, "source")))
    => res.err = "MissingRequiredField"

\* ---------------------------------------------------------------------- C4
\* C4, as stated: a record built without Name or without Source being
\* supplied is never serialized: construction has raised before.
C4_UnsuppliedNeverSent ==
  pc \in {"sent", "echoed"} => {"Name", "Source"} \subseteq supplied

\* ---------------------------------------------------------------------- C5
\* The document without the members whose key is in K.
Without(d, K) == SelectSeq(d, LAMBDA m : m.key \notin K)

\* The keys of d other than the six names / matching none of them.
OtherKeys(d) == {k \in Keys(d) : k \notin WireNames}
UnmatchedKeys(d) == {k \in Keys(d) : Fold(k) \notin WireNames}

\* C5, as stated: a document with name and source that decodes once its
\* keys other than the six known ones are removed also decodes with them,
\* to the same record.
C5_OtherKeysIgnored ==
  (/\ pc = "decoded"
   /\ HasKey(doc, "name") /\ HasKey(doc, "source")
   /\ Unmarshal(Without(doc, OtherKeys(doc))).err = "none")
    => (/\ res.err = "none"
        /\ res.val = Unmarshal(Without(doc, OtherKeys(doc))).val)

\* C5, amended: the keys that are ignored are those that equal none of the
\* six known names even when letter case is disregarded: decoding a document
\* with name and source has the same outcome (success or error, and record)
\* as decoding it with those keys removed.
C5_UnknownKeysIgnored ==
  (pc = "decoded" /\ HasKey(doc, "name") /\ HasKey(doc, "source"))
    => res = Unmarshal(Without(doc, UnmatchedKeys(doc)))

\* {"name":"alert1","source":"METRICS","extra":1} was decoded.
C5_Witness ==
  /\ pc = "decoded"
  /\ doc = <<Member("name", JStr(<<"alert1">>)),
             Member("source", JStr(<<"METRICS">>)),
             Member("extra", JNum)>>
  /\ res.err = "none"
  /\ res.val = [AlertObjectList EXCEPT !.Name = <<"alert1">>,
                                       !.Source = <<"METRICS">>]

\* ---------------------------------------------------------------------- C6
OutsideEnums(r) ==
  \/ r.Source \notin SourceEnum
  \/ \E i \in 1..Len(r.Objects.elems) : r.Objects.elems[i] \notin ObjectsEnum

\* C6, as stated: a record with an Objects entry or a Source outside its
\* enumeration is encoded and decoded without error and its Source and
\* Objects entries come back unchanged.
C6_OutsideEnumUnchanged ==
  (pc = "echoed" /\ OutsideEnums(rec))
    => (/\ res.err = "none"
        /\ res.val.Source = rec.Source
        /\ res.val.Objects.elems = rec.Objects.elems)

\* C6, amended: encoding and decoding never fail, whatever Source and the
\* entries of Objects are, and a Source or an Objects entry comes back
\* unchanged, in its place, whenever it is valid UTF-8, in its enumeration
\* or not.
C6_EnumPassThrough ==
  pc = "echoed" =>
    /\ res.err = "none"
    /\ ValidUTF8(rec.Source) => res.val.Source = rec.Source
    /\ Len(res.val.Objects.elems) = Len(rec.Objects.elems)
    /\ \A i \in 1..Len(rec.Objects.elems) :
         ValidUTF8(rec.Objects.elems[i])
           => res.val.Objects.elems[i] = rec.Objects.elems[i]

\* Objects [NOT_A_REAL_TYPE] and a Source outside the four options came back.
C6_Witness ==
  /\ pc = "echoed"
  /\ rec.Objects = MkSlice(<<<<"NOT_A_REAL_TYPE">>>>)
  /\ rec.Source = <<"NOT_A_REAL_TYPE", "QUOTE">>
  /\ rec.Source \notin SourceEnum
  /\ rec.Objects.elems[1] \notin ObjectsEnum
  /\ res.val.Objects = rec.Objects
  /\ res.val.Source = rec.Source

\* ---------------------------------------------------------------------- C7
\* The name each field has on the wire, as the interface documents it.
WireNameOf ==
  [f \in FieldNames |->
     CASE f = "Name" -> "name"
       [] f = "Objects" -> "objects"
       [] f = "Source" -> "source"
       [] f = "TenantRef" -> "tenant_ref"
       [] f = "URL" -> "url"
       [] f = "UUID" -> "uuid"]

\* The string a JSON string literal denotes.
JSONText(w) ==
  [i \in 1..Len(w) |->
     CASE w[i] = "ESC_QUOTE" -> "QUOTE"
       [] w[i] = "ESC_FFFD" -> "REPL"
       [] OTHER -> w[i]]

\* Field f holds x, and x is exactly the JSON value v.
Carries(f, v, x) ==
  IF f = "Objects"
    THEN /\ v.t = "arr"
         /\ x.elems = [i \in 1..Len(v.a) |-> JSONText(v.a[i])]
    ELSE /\ v.t = "str"
         /\ x = JSONText(v.s)

IsEmpty(f, x) == IF f = "Objects" THEN Len(x.elems) = 0 ELSE x = <<>>

DefaultsAndValues(d, r) ==
  \A f \in FieldNames :
    IF HasKey(d, WireNameOf[f])
      THEN Carries(f, ValueOf(d, WireNameOf[f]), r[f])
      ELSE IsEmpty(f, r[f])

\* Every key of d that is a wire name has a value of its field's JSON type,
\* not null, with no byte that is not valid UTF-8.
Typed(d) ==
  \A i \in 1..Len(d) :
    d[i].key \in WireNames =>
      IF d[i].key = "objects"
        THEN /\ d[i].val.t = "arr"
             /\ \A j \in 1..Len(d[i].val.a) : ValidUTF8(d[i].val.a[j])
        ELSE /\ d[i].val.t = "str"
             /\ ValidUTF8(d[i].val.s)

\* No key of d is a wire name in another letter case.
ExactlySpelled(d) ==
  \A i \in 1..Len(d) : Fold(d[i].key) \in WireNames => d[i].key \in WireNames

\* C7, as stated, for documents whose six keys have values of the right
\* type: decoding a document that has name and source gives a record in
\* which every field whose key is present holds exactly the document's value
\* and every field whose key is absent is empty.
C7_PresentKeysCarryValues ==
  (pc = "decoded" /\ HasKey(doc, "name") /\ HasKey(doc, "source") /\ Typed(doc))
    => (res.err = "none" /\ DefaultsAndValues(doc, res.val))

\* C7, amended: decoding a document that has name and source, in which no
\* key is a wire name in another letter case and each of the six keys has a
\* non-null value of its field's JSON type in valid UTF-8, succeeds and gives a record in which every field whose key is present
\* holds exactly the document's value (the last one, if the key is repeated;
\* Objects in the document's order) and every field whose key is absent is
\* empty.
C7_Defaults ==
  (pc = "decoded" /\ HasKey(doc, "name") /\ HasKey(doc, "source")
   /\ Typed(doc) /\ ExactlySpelled(doc))
    => (res.err = "none" /\ DefaultsAndValues(doc, res.val))

\* {"name":"alert1","source":"EVENT_LOGS","objects":["VIRTUALSERVICE","POOL"]}
\* was decoded.
C7_Witness ==
  /\ pc = "decoded"
  /\ doc = <<Member("name", JStr(<<"alert1">>)),
             Member("source", JStr(<<"EVENT_LOGS">>)),
             Member("objects", JArr(<<<<"VIRTUALSERVICE">>, <<"POOL">>>>))>>
  /\ Typed(doc) /\ ExactlySpelled(doc)
  /\ res.err = "none"
  /\ res.val = [Name |-> <<"alert1">>, Source |-> <<"EVENT_LOGS">>,
                Objects |-> MkSlice(<<<<"VIRTUALSERVICE">>, <<"POOL">>>>),
                TenantRef |-> <<>>, URL |-> <<>>, UUID |-> <<>>]

\* ---------------------------------------------------------------------- C9
\* Field f with value x, as a JSON value.
Encoded(f, x) ==
  IF f = "Objects"
    THEN JArr([i \in 1..Len(x.elems) |-> EncodeString(x.elems[i])])
    ELSE JStr(EncodeString(x))

\* C9: the keys of the document Marshal produces are among name, objects,
\* source, tenant_ref, url and uuid, spelled so, none twice, and the value
\* under each is the JSON encoding of its own field (Name, Objects, Source,
\* TenantRef, URL, UUID respectively), which denotes exactly the field's
\* value when that is valid UTF-8.
C9_WireKeys ==
  pc \in {"sent", "echoed"} =>
    /\ Keys(doc) \subseteq WireNames
    /\ Cardinality(Keys(doc)) = Len(doc)
    /\ \A f \in FieldNames :
         HasKey(doc, WireNameOf[f]) =>
           /\ ValueOf(doc, WireNameOf[f]) = Encoded(f, rec[f])
           /\ RecordValidUTF8(rec) => Carries(f, ValueOf(doc, WireNameOf[f]), rec[f])

\* A record with all six fields set, URL and UUID different, was encoded.
C9_Witness ==
  /\ pc = "sent"
  /\ Keys(doc) = WireNames
  /\ rec.URL # rec.UUID /\ rec.Name # rec.Source /\ rec.TenantRef # rec.URL
  /\ RecordValidUTF8(rec)
  /\ ValueOf(doc, "url") = JStr(EncodeString(rec.URL))

\* ------------------------------------------------- copies of a struct value
\* What holder h reads from its struct value: Objects through its header.
View(h) ==
  [held[h] EXCEPT !.Objects =
     IF held[h].Objects.ptr = 0 THEN NilSlice
     ELSE MkSlice(SubSeq(heap[held[h].Objects.ptr], 1, held[h].Objects.len))]

\* Holder a has built a record; b has the zero value.
InitCopy ==
  /\ pc = "held"
  /\ supplied = {}
  /\ rec = AlertObjectList
  /\ doc = <<>>
  /\ res = [err |-> "none", val |-> AlertObjectList]
  /\ writes = 0
  /\ \E es \in SeqsUpTo(WriteStrs, MaxObjects), n \in WriteStrs :
       /\ heap = <<es>>
       /\ held = [h \in Holders |->
                    IF h = "a"
                      THEN [ZeroValue EXCEPT !.Name = n, !.Source = <<"METRICS">>,
                                             !.Objects = [ptr |-> 1, len |-> Len(es)]]
                      ELSE ZeroValue]

\* b = a: every field is copied; of Objects, the slice header.
Copy ==
  /\ pc = "held"
  /\ held' = [held EXCEPT !["b"] = held["a"]]
  /\ pc' = "copied"
  /\ UNCHANGED <<heap, writes>>
  /\ UNCHANGED codec

\* h.f = v for a string field f.
WriteString(h, f, v) ==
  /\ pc = "copied"
  /\ writes < MaxWrites
  /\ held' = [held EXCEPT ![h][f] = v]
  /\ writes' = writes + 1
  /\ UNCHANGED <<pc, heap>>
  /\ UNCHANGED codec

\* h.Objects = append(h.Objects[:0], ...): the backing array is used again
\* when it is long enough.
WriteObjectsReusing(h, es) ==
  /\ pc = "copied"
  /\ writes < MaxWrites
  /\ IF held[h].Objects.ptr # 0 /\ Len(es) <= Len(heap[held[h].Objects.ptr])
       THEN /\ heap' = [heap EXCEPT ![held[h].Objects.ptr] =
                          [j \in 1..Len(@) |-> IF j <= Len(es) THEN es[j] ELSE @[j]]]
            /\ held' = [held EXCEPT ![h].Objects.len = Len(es)]
       ELSE /\ heap' = Append(heap, es)
            /\ held' = [held EXCEPT ![h].Objects =
                          [ptr |-> Len(heap) + 1, len |-> Len(es)]]
  /\ writes' = writes + 1
  /\ UNCHANGED pc
  /\ UNCHANGED codec

\* h.Objects = []string{...}: a new backing array.
WriteObjects(h, es) ==
  /\ pc = "copied"
  /\ writes < MaxWrites
  /\ heap' = Append(heap, es)
  /\ held' = [held EXCEPT ![h].Objects = [ptr |-> Len(heap) + 1, len |-> Len(es)]]
  /\ writes' = writes + 1
  /\ UNCHANGED pc
  /\ UNCHANGED codec

\* h.Objects[i] = v: a store into the backing array the header points to.
WriteElement(h, i, v) ==
  /\ pc = "copied"
  /\ writes < MaxWrites
  /\ held[h].Objects.ptr # 0
  /\ i \in 1..held[h].Objects.len
  /\ heap' = [heap EXCEPT ![held[h].Objects.ptr][i] = v]
  /\ writes' = writes + 1
  /\ UNCHANGED <<pc, held>>
  /\ UNCHANGED codec

WriteField(h) ==
  \/ \E f \in StringFields, v \in WriteStrs : WriteString(h, f, v)
  \/ \E es \in SeqsUpTo(WriteStrs, MaxObjects) : WriteObjects(h, es)

WriteEntry(h) == \E i \in 1..MaxObjects, v \in WriteStrs : WriteElement(h, i, v)

NextCopy == Copy \/ (\E h \in Holders : WriteField(h) \/ WriteEntry(h))

SpecCopy == InitCopy /\ [][NextCopy]_vars

\* --------------------------------------------------------------------- C10
\* C10, as stated: no write by one holder to its copy, a write to an entry
\* of Objects included, changes what another holder reads from its own.
C10_AnyWriteIsPrivate ==
  [][\A h \in Holders :
       (WriteField(h) \/ WriteEntry(h))
         => \A g \in Holders \ {h} : View(g)' = View(g)]_vars

\* C10, amended: no assignment by one holder to a field of its copy (a
\* string, or a new slice for Objects) changes what another holder reads from
\* its own; a write to an entry of Objects is read by every holder whose
\* Objects still has the same backing array and reaches that entry.
C10_CopyIndependence ==
  [][\A h \in Holders :
       /\ WriteField(h) => \A g \in Holders \ {h} : View(g)' = View(g)
       /\ \A i \in 1..MaxObjects, v \in WriteStrs :
            WriteElement(h, i, v) =>
              \A g \in Holders \ {h} :
                IF held[g].Objects.ptr = held[h].Objects.ptr /\ i <= held[g].Objects.len
                  THEN View(g)'.Objects.elems[i] = v
                  ELSE View(g)' = View(g)]_vars

\* b has assigned Name and a new Objects to its copy, and a still reads what
\* it built.
C10_Witness ==
  /\ pc = "copied"
  /\ held["b"].Name # held["a"].Name
  /\ held["b"].Objects.ptr = 2
  /\ held["a"].Objects.ptr = 1
  /\ View("b").Objects # View("a").Objects
  /\ View("a").Source = <<"METRICS">>

====
